---- MODULE Spec2Model ----
(***************************************************************************)
(* Model of seedselection: compute_hash (src/src/hash.rs) and              *)
(* xor_distance_selection (src/src/xor_dist.rs).                           *)
(*                                                                         *)
(* Byte strings are sequences over 0..255.  A u64 is kept at its real      *)
(* width as a tuple of 8 bytes, most significant first, so that the        *)
(* truncation of the XOR distance to its least significant 64-bit digit    *)
(* and the u64 division by a weight are computed exactly.                  *)
(* A BigUint is its normalised big-endian byte string (no leading zero     *)
(* byte; zero is the empty string).                                        *)
(* std::collections::BinaryHeap is modelled as its backing vector with the *)
(* sift routines of the standard library, which compare elements with the  *)
(* operators <=, >= and <, that is, with PartialOrd::partial_cmp.          *)
(***************************************************************************)
EXTENDS Integers, Sequences, FiniteSets, TLC

\* Longest candidate list of the general input families.
MaxIds == 2
\* Longest candidate list of the families that compare two calls on related
\* inputs.
MaxPair == 3
\* Longest candidate list of the input family that exercises the heap.
MaxDeep == 5

---------------------------------------------------------------------------
(* Bytes, u64 and BigUint arithmetic *)

RECURSIVE XorBits(_, _, _)
\* a ^ b on k-bit unsigned integers
XorBits(a, b, k) ==
  IF k = 0 THEN 0
  ELSE (((a % 2) + (b % 2)) % 2) + 2 * XorBits(a \div 2, b \div 2, k - 1)

\* a ^ b on u8 (x ^ 0 = x)
XorByte(a, b) ==
  IF b = 0 THEN a ELSE IF a = 0 THEN b ELSE XorBits(a, b, 8)

RECURSIVE StripZeros(_)
\* normalisation of a BigUint: leading zero bytes carry no value
StripZeros(bytes) ==
  IF bytes = <<>> THEN <<>>
  ELSE IF Head(bytes) = 0 THEN StripZeros(Tail(bytes))
  ELSE bytes

\* BigUint::from_bytes_be
from_bytes_be(bytes) == StripZeros(bytes)

\* byte of weight 256^k (k = 0 is the last byte) of a big-endian string,
\* zero past its length
ByteAt(v, k) == IF k < Len(v) THEN v[Len(v) - k] ELSE 0

Max(a, b) == IF a >= b THEN a ELSE b

RECURSIVE XorFrom(_, _, _)
\* the bytes of weight 256^(k-1) down to 256^0 of a ^ b, the shorter operand
\* zero-extended
XorFrom(a, b, k) ==
  IF k = 0 THEN <<>>
  ELSE <<XorByte(ByteAt(a, k - 1), ByteAt(b, k - 1))>> \o XorFrom(a, b, k - 1)

\* &hash_value ^ &id_value on BigUint
BitXor(a, b) == StripZeros(XorFrom(a, b, Max(Len(a), Len(b))))

RECURSIVE BytesFrom(_, _, _)
\* the c bytes of v from weight 256^k down, most significant first
BytesFrom(v, k, c) ==
  IF c = 0 THEN <<>> ELSE <<ByteAt(v, k)>> \o BytesFrom(v, k - 1, c - 1)

RECURSIVE DigitsFrom(_, _)
\* the 64-bit digits of v from digit d (0-based) up
DigitsFrom(v, d) ==
  IF 8 * d >= Len(v) THEN <<>>
  ELSE <<BytesFrom(v, 8 * d + 7, 8)>> \o DigitsFrom(v, d + 1)

\* BigUint::to_u64_digits: the 64-bit digits, least significant first; each
\* digit is a u64 (8 bytes, most significant first); zero has no digit
to_u64_digits(v) == DigitsFrom(v, 0)

\* the u64 0
U64Zero == <<0, 0, 0, 0, 0, 0, 0, 0>>

\* faulty variant: the most significant digit instead of the least
first_or_zero_last(digits) ==
  IF Len(digits) = 0 THEN U64Zero ELSE digits[Len(digits)]

\* .first().cloned().unwrap_or(0)
first_or_zero(digits) == IF Len(digits) = 0 THEN U64Zero ELSE digits[1]

RECURSIVE CmpFrom(_, _, _)
\* comparison of two equally long big-endian strings from byte j on:
\* -1 (Less), 0 (Equal), 1 (Greater)
CmpFrom(a, b, j) ==
  IF j > Len(a) THEN 0
  ELSE IF a[j] < b[j] THEN -1
  ELSE IF a[j] > b[j] THEN 1
  ELSE CmpFrom(a, b, j + 1)

\* u64::cmp
U64Cmp(a, b) == CmpFrom(a, b, 1)

RECURSIVE DivFrom(_, _, _, _)
\* schoolbook division of a big-endian string by w > 0 from byte j on, with
\* the remainder carried in
DivFrom(d, w, j, rem) ==
  IF j > Len(d) THEN <<>>
  ELSE LET cur == rem * 256 + d[j]
       IN  <<cur \div w>> \o DivFrom(d, w, j + 1, (cur % w))

\* distance /= weight on u64 (weight > 0)
U64Div(d, w) == DivFrom(d, w, 1, 0)

---------------------------------------------------------------------------
(* src/src/hash.rs *)

\* hasher(): a new Digest state; the state is the bytes absorbed so far
hasher == <<>>

\* Digest::update
update(h, data) == h \o data

RECURSIVE WeightedSum(_, _)
WeightedSum(h, k) ==
  IF k > Len(h) THEN 0 ELSE ((k * h[k]) + WeightedSum(h, k + 1)) % 65536

RECURSIVE DigestBytes(_, _, _)
DigestBytes(sum, len, j) ==
  IF j > 9 THEN <<>>
  ELSE <<(sum * (2 * j + 1) + 7 * len + 11 * j) % 256>> \o DigestBytes(sum, len, j + 1)

\* Digest::finalize of the caller's algorithm.  The algorithm is a parameter
\* of the program; the model instantiates it with a 72-bit digest that is a
\* function of the absorbed bytes and of their order, nothing else.
finalize(h) == DigestBytes(WeightedSum(h, 1), Len(h), 1)

RECURSIVE to_string(_)
\* u64::to_string: the decimal digits in ASCII, no sign, no leading zero
to_string(v) ==
  IF v < 10 THEN <<48 + v>>
  ELSE to_string(v \div 10) \o <<48 + (v % 10)>>

\* compute_hash; name is the UTF-8 bytes of the context string
compute_hash(nm, sd, sq) ==
  LET h0 == hasher
      h1 == update(h0, nm)
      h2 == update(h1, sd)
      h3 == update(h2, to_string(sq))
  IN  finalize(h3)

---------------------------------------------------------------------------
(* HeapEntry and std::collections::BinaryHeap *)

\* HeapEntry { id, distance }; pos is a history field: the index in ids the
\* entry was built from
HeapEntry(id, distance, pos) == [id |-> id, distance |-> distance, pos |-> pos]

\* faulty variant: PartialOrd reversed like Ord
partial_cmp_reversed(a, b) == 0 - U64Cmp(a.distance, b.distance)

\* impl PartialOrd for HeapEntry: -1 Less, 0 Equal, 1 Greater
partial_cmp(a, b) == U64Cmp(a.distance, b.distance)

\* impl Ord for HeapEntry: the reversed comparison
cmp(a, b) == 0 - U64Cmp(a.distance, b.distance)

\* the operators a <= b, a >= b, a < b on HeapEntry: PartialOrd's provided
\* methods, which go through partial_cmp
le(a, b) == partial_cmp(a, b) \in {-1, 0}
ge(a, b) == partial_cmp(a, b) \in {0, 1}
lt(a, b) == partial_cmp(a, b) = -1

\* positions are 0-based as in the Rust code
At(data, p) == data[p + 1]
Swap(data, p, q) == [data EXCEPT ![p + 1] = data[q + 1], ![q + 1] = data[p + 1]]

\* usize::saturating_sub
saturating_sub(a, b) == IF a >= b THEN a - b ELSE 0

RECURSIVE sift_up(_, _, _)
\* BinaryHeap::sift_up(start, pos)
sift_up(data, start, pos) ==
  IF pos > start
  THEN LET parent == (pos - 1) \div 2
       IN  IF le(At(data, pos), At(data, parent)) THEN data
           ELSE sift_up(Swap(data, pos, parent), start, parent)
  ELSE data

\* BinaryHeap::push
push(data, item) == sift_up(Append(data, item), 0, Len(data))

RECURSIVE hole_to_bottom(_, _, _)
\* the loop of BinaryHeap::sift_down_to_bottom: the hole goes down along the
\* greater children to a leaf; the result is <<data, final position>>
hole_to_bottom(data, pos, end) ==
  LET child == 2 * pos + 1
  IN  IF child <= saturating_sub(end, 2)
      THEN LET c == IF le(At(data, child), At(data, child + 1))
                    THEN child + 1 ELSE child
           IN  hole_to_bottom(Swap(data, pos, c), c, end)
      ELSE IF child = end - 1 THEN <<Swap(data, pos, child), child>>
      ELSE <<data, pos>>

\* BinaryHeap::sift_down_to_bottom(pos)
sift_down_to_bottom(data, pos) ==
  LET b == hole_to_bottom(data, pos, Len(data))
  IN  sift_up(b[1], pos, b[2])

\* BinaryHeap::pop, as the heap it leaves (the popped item is dropped by the
\* caller)
pop(data) ==
  IF Len(data) = 0 THEN data
  ELSE LET item == data[Len(data)]
           rest == SubSeq(data, 1, Len(data) - 1)
       IN  IF Len(rest) = 0 THEN rest
           ELSE sift_down_to_bottom([rest EXCEPT ![1] = item], 0)

\* BinaryHeap::peek: Option as a sequence of zero or one element
peek(data) == IF Len(data) = 0 THEN <<>> ELSE <<data[1]>>

RECURSIVE sift_down_range(_, _, _)
\* BinaryHeap::sift_down_range(pos, end)
sift_down_range(data, pos, end) ==
  LET child == 2 * pos + 1
  IN  IF child <= saturating_sub(end, 2)
      THEN LET c == IF le(At(data, child), At(data, child + 1))
                    THEN child + 1 ELSE child
           IN  IF ge(At(data, pos), At(data, c)) THEN data
               ELSE sift_down_range(Swap(data, pos, c), c, end)
      ELSE IF child = end - 1 /\ lt(At(data, pos), At(data, child))
           THEN Swap(data, pos, child)
      ELSE data

RECURSIVE sort_from(_, _)
\* the loop of BinaryHeap::into_sorted_vec
sort_from(data, end) ==
  IF end > 1
  THEN sort_from(sift_down_range(Swap(data, 0, end - 1), 0, end - 1), end - 1)
  ELSE data

\* BinaryHeap::into_sorted_vec
into_sorted_vec(data) == sort_from(data, Len(data))

---------------------------------------------------------------------------
(* src/src/xor_dist.rs: xor_distance_selection *)

\* A behaviour is a caller making the calls 1..Len(ids) one after the other
\* with the same name, seed, seq and n: call c gets ids[c] and weights[c].
\* cur is the call in progress (Len(ids) + 1 once all have returned), pc its
\* position.  hash_value, i and max_heap are the locals of the running call;
\* between calls they keep their last value, and every call sets them anew.
\* ret[c] is what call c returned; ret_pos[c] is a history variable: the
\* index in ids[c] each returned entry was built from.
VARIABLES name, seed, seq, n, ids, weights, cur, pc, hash_value, i, max_heap,
          ret, ret_pos

vars == <<name, seed, seq, n, ids, weights, cur, pc, hash_value, i, max_heap,
          ret, ret_pos>>

\* Option<&[u64]>: None is <<>>, Some(w) is <<w>>
NoWeights == <<>>
SomeWeights(w) == <<w>>

\* Option<Vec<Vec<u8>>> as returned; Pending before the call has returned
Pending == <<"Pending">>
None == <<"None">>
Some(list) == <<"Some", list>>

\* lines 101-104: the ranking key before any weight
raw_distance(hv, id_bytes) ==
  LET id_value == from_bytes_be(id_bytes)
      distance_val == BitXor(hv, id_value)
  IN  first_or_zero(to_u64_digits(distance_val))

\* faulty variant: the weight of the next index, weights.get(k + 1)
apply_weight_next_index(distance, wopt, k) ==
  IF Len(wopt) = 0 THEN distance
  ELSE LET w == wopt[1]
       IN  IF k + 1 < Len(w) /\ w[k + 2] > 0 THEN U64Div(distance, w[k + 2])
           ELSE distance

\* lines 105-112: weights.get(k).filter(|w| *w > 0), k the 0-based index
apply_weight(distance, wopt, k) ==
  IF Len(wopt) = 0 THEN distance
  ELSE LET w == wopt[1]
       IN  IF k < Len(w) /\ w[k + 1] > 0 THEN U64Div(distance, w[k + 1])
           ELSE distance

\* lines 99-116: the entry built for ids[k] (k 0-based)
make_entry(hv, idlist, wopt, k) ==
  HeapEntry(idlist[k + 1], apply_weight(raw_distance(hv, idlist[k + 1]), wopt, k), k)

\* faulty variants: the comparison turned round; ties replaced as well
u64_lt_flipped(a, b) == U64Cmp(a, b) = 1
u64_lt_or_equal(a, b) == U64Cmp(a, b) \in {-1, 0}

\* line 125: entry.distance < top_entry.distance on u64
u64_lt(a, b) == U64Cmp(a, b) = -1

\* faulty variants: n compared before the empty check; n > p instead of n >= p
dispatch_n_first(cnt, p) ==
  IF cnt >= p THEN "all" ELSE IF p = 0 THEN "none" ELSE "scan"
dispatch_strict(cnt, p) ==
  IF p = 0 THEN "none" ELSE IF cnt > p THEN "all" ELSE "scan"

\* lines 83-88: which way the call goes
dispatch(cnt, p) ==
  IF p = 0 THEN "none" ELSE IF cnt >= p THEN "all" ELSE "scan"

\* faulty variant: max_heap.len() <= n
has_room_inclusive(len, cnt) == len <= cnt

\* line 118: max_heap.len() < n
has_room(len, cnt) == len < cnt

Calling == cur <= Len(ids)

\* lines 83-85
ReturnNone ==
  /\ Calling /\ pc = "call"
  /\ dispatch(n, Len(ids[cur])) = "none"
  /\ ret' = [ret EXCEPT ![cur] = None]
  /\ cur' = cur + 1
  /\ UNCHANGED <<name, seed, seq, n, ids, weights, pc, hash_value, i, max_heap, ret_pos>>

\* lines 86-88
ReturnAll ==
  /\ Calling /\ pc = "call"
  /\ dispatch(n, Len(ids[cur])) = "all"
  /\ ret' = [ret EXCEPT ![cur] = Some(ids[cur])]
  /\ ret_pos' = [ret_pos EXCEPT ![cur] = [k \in 1..Len(ids[cur]) |-> k - 1]]
  /\ cur' = cur + 1
  /\ UNCHANGED <<name, seed, seq, n, ids, weights, pc, hash_value, i, max_heap>>

\* faulty variant: the hasher is not new: after a call that hashed, it has
\* already absorbed that call's context, seed and sequence number
BeginScanSharedHasher ==
  /\ Calling /\ pc = "call"
  /\ dispatch(n, Len(ids[cur])) = "scan"
  /\ LET absorbed == IF hash_value = <<>> THEN hasher
                     ELSE update(update(update(hasher, name), seed), to_string(seq))
     IN  hash_value' = from_bytes_be(finalize(
           update(update(update(absorbed, name), seed), to_string(seq))))
  /\ max_heap' = <<>>
  /\ i' = 0
  /\ pc' = "scan"
  /\ UNCHANGED <<name, seed, seq, n, ids, weights, cur, ret, ret_pos>>

\* lines 89-98: the round reference, a new heap, the loop index at 0
BeginScan ==
  /\ Calling /\ pc = "call"
  /\ dispatch(n, Len(ids[cur])) = "scan"
  /\ hash_value' = from_bytes_be(compute_hash(name, seed, seq))
  /\ max_heap' = <<>>
  /\ i' = 0
  /\ pc' = "scan"
  /\ UNCHANGED <<name, seed, seq, n, ids, weights, cur, ret, ret_pos>>

\* the entry of the loop iteration about to run
entry == make_entry(hash_value, ids[cur], weights[cur], i)

\* lines 118-119
Push ==
  /\ pc = "scan"
  /\ i < Len(ids[cur])
  /\ has_room(Len(max_heap), n)
  /\ max_heap' = push(max_heap, entry)
  /\ i' = i + 1
  /\ UNCHANGED <<name, seed, seq, n, ids, weights, cur, pc, hash_value, ret, ret_pos>>

\* lines 120-128, the branch that pops and pushes
Replace ==
  /\ pc = "scan"
  /\ i < Len(ids[cur])
  /\ ~has_room(Len(max_heap), n)
  /\ Len(peek(max_heap)) = 1
  /\ u64_lt(entry.distance, peek(max_heap)[1].distance)
  /\ max_heap' = push(pop(max_heap), entry)
  /\ i' = i + 1
  /\ UNCHANGED <<name, seed, seq, n, ids, weights, cur, pc, hash_value, ret, ret_pos>>

\* lines 120-130, the branches that leave the heap alone: peek gives None,
\* or the entry is not closer than the top
Discard ==
  /\ pc = "scan"
  /\ i < Len(ids[cur])
  /\ ~has_room(Len(max_heap), n)
  /\ \/ Len(peek(max_heap)) = 0
     \/ /\ Len(peek(max_heap)) = 1
        /\ ~u64_lt(entry.distance, peek(max_heap)[1].distance)
  /\ i' = i + 1
  /\ UNCHANGED <<name, seed, seq, n, ids, weights, cur, pc, hash_value, max_heap, ret, ret_pos>>

\* lines 133-139; into_sorted_vec sorts the heap's vector in place
Finish ==
  /\ pc = "scan"
  /\ i = Len(ids[cur])
  /\ LET sorted == into_sorted_vec(max_heap)
     IN  /\ max_heap' = sorted
         /\ ret' = [ret EXCEPT ![cur] = Some([k \in 1..Len(sorted) |-> sorted[k].id])]
         /\ ret_pos' = [ret_pos EXCEPT ![cur] = [k \in 1..Len(sorted) |-> sorted[k].pos]]
  /\ cur' = cur + 1
  /\ pc' = "call"
  /\ UNCHANGED <<name, seed, seq, n, ids, weights, hash_value, i>>

Next ==
  \/ ReturnNone
  \/ ReturnAll
  \/ BeginScan
  \/ Push
  \/ Replace
  \/ Discard
  \/ Finish

---------------------------------------------------------------------------
(* Inputs *)

SeqsUpTo(S, k) == UNION {[1..m -> S] : m \in 0..k}

\* the Option<&[u64]> values over the weight lists W
WeightOpts(W) == {NoWeights} \cup {SomeWeights(w) : w \in W}

\* the state before the first of k calls
Fresh(k) ==
  /\ cur = 1
  /\ pc = "call"
  /\ hash_value = <<>>
  /\ i = 0
  /\ max_heap = <<>>
  /\ ret = [c \in 1..k |-> Pending]
  /\ ret_pos = [c \in 1..k |-> <<>>]

\* context strings "" and "t", the seed "s", sequence numbers of one and of
\* two decimal digits (the families that do not vary seq use seq = 1)
Names == {<<>>, <<116>>}
Seeds == {<<115>>}
Seqs == {1, 10}

\* the round reference of ("t", "s", 1)
RefA == compute_hash(<<116>>, <<115>>, 1)

\* candidate identifiers: the empty string; a leading zero byte; nine bytes
\* that agree with <<0, 1>> in the low 64 bits; the round reference itself
IdPool == {<<>>, <<0, 1>>, <<7, 0, 0, 0, 0, 0, 0, 0, 1>>, RefA}

WeightPool == {0, 1, 3}

\* one call, any n, any weights list of any length
Init ==
  /\ name \in Names
  /\ seed \in Seeds
  /\ seq = 1
  /\ n \in 0..MaxIds
  /\ \E a \in SeqsUpTo(IdPool, MaxIds) : ids = <<a>>
  /\ \E w \in WeightOpts(SeqsUpTo(WeightPool, MaxIds)) : weights = <<w>>
  /\ Fresh(1)

Spec == Init /\ [][Next]_vars

\* Long candidate lists: three identifiers, two of them at the same distance,
\* and either no weights or the weights 0, 2, 3, 0, 2, 3, ... by position
HeapIdPool == {<<1>>, <<2>>, <<7, 0, 0, 0, 0, 0, 0, 0, 1>>}
CycleWeights(m) == [k \in 1..m |-> (0 :> 3 @@ 1 :> 0 @@ 2 :> 2)[k % 3]]

InitHeap ==
  /\ name \in Names
  /\ seed \in Seeds
  /\ seq = 1
  /\ n \in 1..MaxDeep
  /\ \E a \in SeqsUpTo(HeapIdPool, MaxDeep) :
       /\ ids = <<a>>
       /\ weights \in {<<NoWeights>>, <<SomeWeights(CycleWeights(Len(a)))>>}
  /\ Fresh(1)

SpecHeap == InitHeap /\ [][Next]_vars

\* The same call made twice
SameIdPool == {<<0, 1>>, <<3>>, <<7, 0, 0, 0, 0, 0, 0, 0, 1>>}
SameWeightPool == {0, 3}

InitSame ==
  /\ name \in Names
  /\ seed \in {<<>>, <<115>>}
  /\ seq \in Seqs
  /\ n \in 0..MaxIds
  /\ \E a \in SeqsUpTo(SameIdPool, MaxIds) : ids = <<a, a>>
  /\ \E w \in WeightOpts(SeqsUpTo(SameWeightPool, MaxIds)) : weights = <<w, w>>
  /\ Fresh(2)

SpecSame == InitSame /\ [][Next]_vars

\* A call, then the call on the candidates permuted, the weights with them
Perms(m) == {f \in [1..m -> 1..m] : \A x, y \in 1..m : f[x] = f[y] => x = y}
Permute(a, f) == [k \in 1..Len(a) |-> a[f[k]]]

InitPerm ==
  /\ name \in Names
  /\ seed \in Seeds
  /\ seq = 1
  /\ n \in 0..MaxPair
  /\ \E a \in SeqsUpTo(SameIdPool, MaxPair) :
       \E f \in Perms(Len(a)) :
         /\ ids = <<a, Permute(a, f)>>
         /\ \/ weights = <<NoWeights, NoWeights>>
            \/ \E w \in [1..Len(a) -> SameWeightPool] :
                 weights = <<SomeWeights(w), SomeWeights(Permute(w, f))>>
  /\ Fresh(2)

SpecPerm == InitPerm /\ [][Next]_vars

\* A call with weights, then the call with the weight at one index raised
BumpIdPool == {<<0, 1>>, <<3>>}
BumpWeightPool == {0, 1}
BumpBy == {1}

InitBump ==
  /\ name \in Names
  /\ seed \in Seeds
  /\ seq = 1
  /\ n \in 0..MaxPair
  /\ \E a \in SeqsUpTo(BumpIdPool, MaxPair) :
       \E w \in [1..(IF Len(a) = 0 THEN 1 ELSE Len(a)) -> BumpWeightPool] :
         \E k \in 1..Len(w), by \in BumpBy :
           /\ ids = <<a, a>>
           /\ weights = <<SomeWeights(w), SomeWeights([w EXCEPT ![k] = w[k] + by])>>
  /\ Fresh(2)

SpecBump == InitBump /\ [][Next]_vars

---------------------------------------------------------------------------
(* Properties *)

\* call c has returned
Done(c) == cur > c

\* the round reference of the behaviour's calls
Reference == compute_hash(name, seed, seq)

\* the distance the code ranks candidate k (0-based) of call c by
EffDist(c, k) ==
  make_entry(from_bytes_be(Reference), ids[c], weights[c], k).distance

\* a <= b, a < b on u64
Leq(a, b) == U64Cmp(a, b) \in {-1, 0}
Less(a, b) == U64Cmp(a, b) = -1

\* 0 < n < len(ids) in call c
InScope(c) == 0 < n /\ n < Len(ids[c])

Range(f) == {f[j] : j \in DOMAIN f}

IsSome(r) == r[1] = "Some"

RECURSIVE DistancesFrom(_, _)
\* the effective distances of the candidates k, k + 1, ... of call c
DistancesFrom(c, k) ==
  IF k >= Len(ids[c]) THEN <<>>
  ELSE <<EffDist(c, k)>> \o DistancesFrom(c, k + 1)

\* C1: a call with 0 < n < len(ids) returns Some(list) of exactly n entries,
\* each the bytes of a distinct input position, and no candidate left out is
\* strictly closer than a returned one.
C1_SelectsNClosest ==
  \A c \in 1..Len(ids) :
    (Done(c) /\ InScope(c)) =>
      LET dist == DistancesFrom(c, 0)
      IN  /\ IsSome(ret[c])
          /\ Len(ret[c][2]) = n
          /\ Len(ret_pos[c]) = n
          /\ \A j \in 1..n :
               /\ ret_pos[c][j] \in 0..(Len(ids[c]) - 1)
               /\ ret[c][2][j] = ids[c][ret_pos[c][j] + 1]
          /\ \A j1, j2 \in 1..n : j1 # j2 => ret_pos[c][j1] # ret_pos[c][j2]
          /\ \A j \in 1..n :
               \A k \in (0..(Len(ids[c]) - 1)) \ Range(ret_pos[c]) :
                 Leq(dist[ret_pos[c][j] + 1], dist[k + 1])

\* a call in scope has returned, an entry that arrived when the heap was full
\* is among the returned, and a candidate strictly farther was left out
C1_Witness ==
  /\ Done(1) /\ InScope(1)
  /\ \E j \in 1..n : ret_pos[1][j] >= n
  /\ \E j \in 1..n :
       \E k \in (0..(Len(ids[1]) - 1)) \ Range(ret_pos[1]) :
         Less(EffDist(1, ret_pos[1][j]), EffDist(1, k))

\* C2: the list a call with 0 < n < len(ids) returns is in non-decreasing
\* order of effective distance.
C2_AscendingDistance ==
  \A c \in 1..Len(ids) :
    (Done(c) /\ InScope(c)) =>
      LET dist == DistancesFrom(c, 0)
      IN  \A j1, j2 \in 1..Len(ret_pos[c]) :
            j1 < j2 => Leq(dist[ret_pos[c][j1] + 1], dist[ret_pos[c][j2] + 1])

\* a returned list of at least three entries with two strictly ordered
\* entries that stood the other way round in the input
C2_Witness ==
  /\ Done(1) /\ InScope(1) /\ n >= 3
  /\ \E j1, j2 \in 1..n :
       /\ j1 < j2
       /\ ret_pos[1][j1] > ret_pos[1][j2]
       /\ Less(EffDist(1, ret_pos[1][j1]), EffDist(1, ret_pos[1][j2]))

\* the scan of a call with 0 < n < len(ids) is at a candidate
Scanning == pc = "scan" /\ 0 < n /\ i < Len(ids[cur])

Min(a, b) == IF a <= b THEN a ELSE b

HeapSet(h) == {h[j] : j \in 1..Len(h)}

\* C9: in a scan with 0 < n < len(ids) the heap holds min(k, n) entries after
\* k candidates; when it holds n, peek gives a kept entry of largest distance,
\* and the incoming candidate replaces exactly that entry if its distance is
\* strictly smaller, and otherwise leaves the heap as it is.
C9_BoundedScanStep ==
  [][ Scanning =>
        /\ Len(max_heap) = Min(i, n)
        /\ i' = i + 1
        /\ Len(max_heap') = Min(i + 1, n)
        /\ Len(max_heap) < n => HeapSet(max_heap') = HeapSet(max_heap) \cup {entry}
        /\ Len(max_heap) = n =>
             LET top == peek(max_heap)[1]
             IN  /\ top \in HeapSet(max_heap)
                 /\ \A e \in HeapSet(max_heap) : Leq(e.distance, top.distance)
                 /\ IF Less(entry.distance, top.distance)
                    THEN HeapSet(max_heap') = (HeapSet(max_heap) \ {top}) \cup {entry}
                    ELSE max_heap' = max_heap
    ]_vars

\* a full heap of at least two entries, one of which came in by replacing
\* the worst kept
C9_Witness ==
  /\ pc = "scan" /\ n >= 2 /\ Len(max_heap) = n
  /\ \E e \in HeapSet(max_heap) : e.pos >= n

\* C5: a call returns None exactly when ids is empty, whatever n and weights.
C5_NoneIffEmpty ==
  \A c \in 1..Len(ids) :
    Done(c) => (ret[c] = None <=> Len(ids[c]) = 0)

\* a call with empty ids, n = 0 and weights supplied has returned None
C5_Witness ==
  /\ Done(1) /\ Len(ids[1]) = 0 /\ n = 0 /\ weights[1] # NoWeights
  /\ ret[1] = None

\* C6: a call with non-empty ids and n >= len(ids) returns Some(ids): every
\* candidate, its bytes unchanged, in input order.
C6_Saturation ==
  \A c \in 1..Len(ids) :
    (Done(c) /\ Len(ids[c]) > 0 /\ n >= Len(ids[c])) => ret[c] = Some(ids[c])

\* such a call has returned the input although its second candidate is
\* strictly closer than its first
C6_Witness ==
  /\ Done(1) /\ Len(ids[1]) = 2 /\ n = 2
  /\ Less(EffDist(1, 1), EffDist(1, 0))
  /\ ret[1] = Some(ids[1])

\* C7: a call with n = 0 and non-empty ids returns Some of the empty list;
\* its scan keeps the heap empty, so that every peek gives None.
C7_ZeroSelection ==
  /\ \A c \in 1..Len(ids) :
       (Done(c) /\ n = 0 /\ Len(ids[c]) > 0) => ret[c] = Some(<<>>)
  /\ (pc = "scan" /\ n = 0) => (max_heap = <<>> /\ peek(max_heap) = <<>>)

\* a call with n = 0 has scanned two candidates and returned Some(<<>>)
C7_Witness ==
  /\ Done(1) /\ n = 0 /\ Len(ids[1]) = 2 /\ i = 2
  /\ ret[1] = Some(<<>>) /\ ret[1] # None

\* 2^t for t in 0..7
Pow2(t) == <<1, 2, 4, 8, 16, 32, 64, 128>>[t + 1]

\* bit b (b = 0 the least significant) of the big-endian unsigned integer a
\* byte string stands for, zero beyond its length
KeyBit(str, b) ==
  LET q == b \div 8
  IN  IF q < Len(str) THEN (str[Len(str) - q] \div Pow2(b % 8)) % 2 ELSE 0

RECURSIVE XorBitsValue(_, _, _, _)
\* the value of the bits base + t down to base of x XOR y, as a byte
XorBitsValue(x, y, base, t) ==
  IF t < 0 THEN 0
  ELSE Pow2(t) * ((KeyBit(x, base + t) + KeyBit(y, base + t)) % 2)
       + XorBitsValue(x, y, base, t - 1)

\* (x XOR y) mod 2^64 bit by bit, as a u64
XorMod64(x, y) == [j \in 1..8 |-> XorBitsValue(x, y, 8 * (8 - j), 7)]

RECURSIVE MulAddBytes(_, _, _, _)
\* q * w + carry from the byte of weight 256^k up, as the bytes of weight
\* 256^8 down to 256^k
MulAddBytes(q, w, k, carry) ==
  IF k = 9 THEN <<>>
  ELSE LET at == ByteAt(q, k) * w + carry
       IN  MulAddBytes(q, w, k + 1, at \div 256) \o <<at % 256>>

\* q = floor(d / w) for u64 q, d and 0 < w: q * w <= d < q * w + w
IsFloorDiv(q, d, w) ==
  /\ CmpFrom(MulAddBytes(q, w, 0, 0), <<0>> \o d, 1) \in {-1, 0}
  /\ CmpFrom(<<0>> \o d, MulAddBytes(q, w, 0, w), 1) = -1

\* dist is the ranking key of candidate k (0-based) of call c
IsRankingKey(c, k, dist) ==
  LET raw == XorMod64(Reference, ids[c][k + 1])
      weighted == /\ weights[c] # NoWeights
                  /\ k < Len(weights[c][1])
                  /\ weights[c][1][k + 1] > 0
  IN  IF weighted THEN IsFloorDiv(dist, raw, weights[c][1][k + 1])
      ELSE dist = raw

\* C10: the distance a candidate is ranked by is (reference XOR candidate)
\* mod 2^64 over the big-endian values, floor-divided by its weight when one
\* is supplied at its index and is positive, unchanged otherwise; a call with
\* a weights list of another length than ids returns normally.
C10_RankingKey ==
  /\ pc = "scan" =>
       /\ i < Len(ids[cur]) => IsRankingKey(cur, i, entry.distance)
       /\ \A e \in HeapSet(max_heap) : IsRankingKey(cur, e.pos, e.distance)
  /\ \A c \in 1..Len(ids) : (Done(c) /\ Len(ids[c]) > 0) => IsSome(ret[c])

\* a kept entry built from a nine-byte identifier whose key was divided by
\* its weight 3, in a call whose weights list is shorter than ids
C10_Witness ==
  /\ pc = "scan" /\ weights[cur] # NoWeights
  /\ Len(weights[cur][1]) < Len(ids[cur])
  /\ \E e \in HeapSet(max_heap) :
       /\ Len(e.id) = 9
       /\ e.pos < Len(weights[cur][1])
       /\ weights[cur][1][e.pos + 1] = 3
       /\ e.distance # XorMod64(Reference, e.id)

\* C3: two calls with the same name, seed, seq, n, ids and weights return the
\* same: both None, or both Some of the same candidates at the same places.
C3_Deterministic ==
  Done(2) => (ret[1] = ret[2] /\ ret_pos[1] = ret_pos[2])

\* both calls have scanned and returned, with an entry that replaced another
C3_Witness ==
  /\ Done(2) /\ InScope(2) /\ IsSome(ret[2])
  /\ \E j \in 1..n : ret_pos[2][j] >= n

\* the distances of the entries call c returned, in the order returned
RetDistances(c) == [j \in 1..Len(ret_pos[c]) |-> EffDist(c, ret_pos[c][j])]

\* C4: a call on permuted candidates (weights permuted with them) returns the
\* same set of candidates, and, where the result is ordered by distance
\* (0 < n < len(ids)), the same distances place by place.
C4_OrderIndependent ==
  (Done(2) /\ IsSome(ret[1])) =>
    /\ IsSome(ret[2])
    /\ Range(ret[1][2]) = Range(ret[2][2])
    /\ InScope(1) => RetDistances(1) = RetDistances(2)

\* the 0-based index at which the weights of the two calls differ
Bumped ==
  (CHOOSE k \in 1..Len(weights[1][1]) : weights[1][1][k] # weights[2][1][k]) - 1

\* the place of position k in the returned positions p
PlaceOf(p, k) == CHOOSE j \in 1..Len(p) : p[j] = k

\* C8: with the weight of one candidate raised and all else the same, the
\* candidate's effective distance is not larger, and if it was returned before
\* it is returned again, at a place no later.
C8_WeightMonotone ==
  (Done(2) /\ Bumped < Len(ids[1])) =>
    /\ Leq(EffDist(2, Bumped), EffDist(1, Bumped))
    /\ Bumped \in Range(ret_pos[1]) =>
         /\ Bumped \in Range(ret_pos[2])
         /\ PlaceOf(ret_pos[2], Bumped) <= PlaceOf(ret_pos[1], Bumped)

\* the raised weight moved a returned candidate to a strictly earlier place
C8_Witness ==
  /\ Done(2) /\ InScope(1) /\ Bumped < Len(ids[1])
  /\ Bumped \in Range(ret_pos[1]) /\ Bumped \in Range(ret_pos[2])
  /\ PlaceOf(ret_pos[2], Bumped) < PlaceOf(ret_pos[1], Bumped)

====
